---- MODULE Spec2Model ----
(***************************************************************************)
(* A state-machine model of scripts/extract_features_from_theanh_data.py:  *)
(* one invocation of the script is a process that walks the stages of      *)
(* __main__ (load, longitude normalisation, single-time check, pressure,   *)
(* the per-field extraction loop, container assembly, domain crop,         *)
(* makedirs, write).  Two invocations share the output directory tree.     *)
(*                                                                         *)
(* Representation.  Text (paths, prefixes, time stamps) is a sequence of   *)
(* one-character strings.  An array is represented by its shape (the       *)
(* sequence of its axis lengths); the coordinate arrays XLAT and XLONG are *)
(* represented by the axis the script reads from them (XLAT[0, :, 0] and   *)
(* XLONG[0, 0, :]).  A time is a number of seconds counted from the epoch  *)
(* named by XTIME's units.                                                 *)
(***************************************************************************)
EXTENDS Integers, Sequences, FiniteSets, TLC

\* ---------------------------------------------------------------- bounds
\* number of model (bottom_top) levels of a snapshot
NZ == 2
\* length of the south_north and west_east axes in the grid specification
NY == 3
NX == 3
\* longest time axis of a snapshot
MaxTimes == 2
\* most source variables absent from a snapshot
MaxAbsent == 1

\* ------------------------------------------------------ program constants
PRESSURE_LEVELS ==
    <<1000, 975, 950, 925, 900, 850, 800, 750, 700,
      650, 600, 550, 500, 450, 400, 350, 300, 250, 200>>

\* the crop window passed to extract_in_domain
LATRANGE == <<5, 45>>
LONRANGE == <<100, 260>>

\* the table of (name, fn, do_extract_at_levels)
variables ==
    << [name |-> "absvprs", fn |-> "calculate_vorticity",         do_extract_at_levels |-> TRUE],
       [name |-> "capesfc", fn |-> "calculate_cape",              do_extract_at_levels |-> FALSE],
       [name |-> "hgtprs",  fn |-> "calculate_geopotential",      do_extract_at_levels |-> TRUE],
       [name |-> "rhprs",   fn |-> "calculate_relative_humidity", do_extract_at_levels |-> TRUE],
       [name |-> "tmpprs",  fn |-> "calculate_temperature",       do_extract_at_levels |-> TRUE],
       [name |-> "ugrdprs", fn |-> "calculate_uwind",             do_extract_at_levels |-> TRUE],
       [name |-> "vgrdprs", fn |-> "calculate_vwind",             do_extract_at_levels |-> TRUE],
       [name |-> "vvelprs", fn |-> "calculate_wwind",             do_extract_at_levels |-> TRUE],
       [name |-> "slp",     fn |-> "calculate_slp",               do_extract_at_levels |-> FALSE] >>

DeclaredNames == { variables[i].name : i \in DOMAIN variables }

\* an except clause that lets KeyError through
RecoverableAlt == {"ValueError"}
\* an except clause that catches everything
RecoverableAll == {"ValueError", "KeyError", "Other"}
\* the error kinds the loop's except clause catches
Recoverable == {"ValueError", "KeyError"}

\* ------------------------------------------------- the diagnostics library
\* The source variables wrf.getvar reads for the product each calculate_*
\* function asks for ('avo', 'cape2d', 'PH'+'PHB', 'rh', 'T', 'ua', 'va',
\* 'wa', 'slp', and 'p' for calculate_pressure).
Requires(fn) ==
    CASE fn = "calculate_vorticity"         -> {"U", "V", "MSFU", "MSFV", "MSFM", "F"}
      [] fn = "calculate_cape"              -> {"T", "P", "PB", "QVAPOR", "PH", "PHB", "HGT", "PSFC"}
      [] fn = "calculate_geopotential"      -> {"PH", "PHB"}
      [] fn = "calculate_relative_humidity" -> {"T", "P", "PB", "QVAPOR"}
      [] fn = "calculate_temperature"       -> {"T"}
      [] fn = "calculate_uwind"             -> {"U"}
      [] fn = "calculate_vwind"             -> {"V"}
      [] fn = "calculate_wwind"             -> {"W"}
      [] fn = "calculate_slp"               -> {"T", "P", "PB", "QVAPOR", "PH", "PHB"}
      [] fn = "calculate_pressure"          -> {"P", "PB"}

SourceVars ==
    UNION { Requires(variables[i].fn) : i \in DOMAIN variables } \cup Requires("calculate_pressure")

\* wrf.destagger(var, stagger_dim): the staggered axis loses one point
destagger(shape, stagger_dim) ==
    [k \in DOMAIN shape |-> IF k = stagger_dim + 1 THEN shape[k] - 1 ELSE shape[k]]

\* The shape of what each calculate_* function returns on a snapshot with
\* nz model levels and an ny x nx horizontal grid.  'cape2d' is the stacked
\* product (MCAPE, MCIN, LCL, LFC): its leading axis has length 4.  PH and PHB
\* are staggered in the vertical; calculate_geopotential destaggers axis 0.
ResultShape(fn, nz, ny, nx) ==
    CASE fn = "calculate_cape"         -> <<4, ny, nx>>
      [] fn = "calculate_slp"          -> <<ny, nx>>
      [] fn = "calculate_geopotential" -> destagger(<<nz + 1, ny, nx>>, 0)
      [] OTHER                         -> <<nz, ny, nx>>

\* wrf.interplevel: the vertical axis is replaced by the requested levels
extract_at_levels(var, pressure, levels) ==
    <<Len(levels)>> \o Tail(var)

\* --------------------------------------------------------- pure functions
\* a wrap by half a turn instead of a full one
convert_alt(lon) ==
    [i \in DOMAIN lon |-> IF lon[i] < 0 THEN lon[i] + 180 ELSE lon[i]]
\* np.where(lon < 0, lon + 360, lon), element by element
convert_longitudes_to_0_360(lon) ==
    [i \in DOMAIN lon |-> IF lon[i] < 0 THEN lon[i] + 360 ELSE lon[i]]

specify_dimensions_name(shape) ==
    IF Len(shape) = 3 THEN <<"lev", "lat", "lon">> ELSE <<"lat", "lon">>

CoordSize(dim, lat, lon, lev) ==
    CASE dim = "lev" -> Len(lev)
      [] dim = "lat" -> Len(lat)
      [] dim = "lon" -> Len(lon)

\* xr.Dataset(...) raises ValueError when a variable's axis and the
\* coordinate of the same dimension name have conflicting sizes
DimensionConflict(vars, lat, lon, lev) ==
    \E i \in DOMAIN vars :
        LET dims == specify_dimensions_name(vars[i].values)
        IN \E k \in DOMAIN dims :
               vars[i].values[k] # CoordSize(dims[k], lat, lon, lev)

construct_xr_dataset(vars, lat, lon, lev, attrs) ==
    [ data_vars |-> [i \in DOMAIN vars |->
                        [name  |-> vars[i].name,
                         dims  |-> specify_dimensions_name(vars[i].values),
                         shape |-> vars[i].values]],
      lat |-> lat, lon |-> lon, lev |-> lev, attrs |-> attrs ]

\* ------------------------------------------------------- label slicing
\* Dataset.sel(dim=slice(lo, hi)) resolves the labels against the axis's
\* pandas index (Index.slice_indexer -> get_slice_bound).  Positions are
\* 0-based, as in pandas.
is_monotonic_increasing(index) ==
    \A i, j \in DOMAIN index : i < j => index[i] <= index[j]

is_monotonic_decreasing(index) ==
    \A i, j \in DOMAIN index : i < j => index[i] >= index[j]

SetMin(S) == CHOOSE x \in S : \A y \in S : x <= y

SetMax(S) == CHOOSE x \in S : \A y \in S : x >= y

\* get_loc finds the label: a position, or a run of equal labels; a label
\* that occurs in separate places cannot be a slice bound (KeyError).  A
\* label that is not found is located by binary search on a monotonic index
\* and is a KeyError on any other index.
get_slice_bound(index, label, side) ==
    LET locs  == {i \in DOMAIN index : index[i] = label}
        below == Cardinality({i \in DOMAIN index : index[i] < label})
        above == Cardinality({i \in DOMAIN index : index[i] > label})
    IN  IF locs # {}
        THEN IF SetMax(locs) - SetMin(locs) + 1 = Cardinality(locs)
             THEN [ok |-> TRUE,
                   pos |-> IF side = "left" THEN SetMin(locs) - 1 ELSE SetMax(locs)]
             ELSE [ok |-> FALSE, pos |-> 0]
        ELSE IF is_monotonic_increasing(index) THEN [ok |-> TRUE, pos |-> below]
        ELSE IF is_monotonic_decreasing(index) THEN [ok |-> TRUE, pos |-> above]
        ELSE [ok |-> FALSE, pos |-> 0]

\* the positional slice [start, stop) of the axis; empty when start >= stop
slice_indexer(index, range) ==
    LET lo == get_slice_bound(index, range[1], "left")
        hi == get_slice_bound(index, range[2], "right")
    IN  [ok |-> lo.ok /\ hi.ok, start |-> lo.pos, stop |-> hi.pos]

TakeSlice(index, sl) ==
    IF sl.start < sl.stop THEN SubSeq(index, sl.start + 1, sl.stop) ELSE <<>>

\* ds.sel raises KeyError when a bound of either slice cannot be located
DomainKeyError(ds, latrange, lonrange) ==
    \/ ~ slice_indexer(ds.lat, latrange).ok
    \/ ~ slice_indexer(ds.lon, lonrange).ok

\* a cropper that selects nothing away
extract_alt(ds, latrange, lonrange) ==
    ds
\* ds.sel(dict(lat=slice(*latrange), lon=slice(*lonrange)))
extract_in_domain(ds, latrange, lonrange) ==
    LET lat == TakeSlice(ds.lat, slice_indexer(ds.lat, latrange))
        lon == TakeSlice(ds.lon, slice_indexer(ds.lon, lonrange))
        Crop(var) ==
            [var EXCEPT !.shape =
                [k \in DOMAIN var.dims |->
                    CASE var.dims[k] = "lat" -> Len(lat)
                      [] var.dims[k] = "lon" -> Len(lon)
                      [] OTHER               -> var.shape[k]]]
    IN  [ds EXCEPT !.lat = lat, !.lon = lon,
                   !.data_vars = [i \in DOMAIN ds.data_vars |-> Crop(ds.data_vars[i])]]

\* ------------------------------------------------------ times and paths
Digits == <<"0", "1", "2", "3", "4", "5", "6", "7", "8", "9">>

Pad2(n) == <<Digits[((n \div 10) % 10) + 1], Digits[(n % 10) + 1]>>

Pad4(n) == Pad2(n \div 100) \o Pad2(n % 100)

\* the date named by XTIME's units; the model's times stay within its month
EPOCH == [year |-> 2008, month |-> 5, day |-> 5]

\* num2date(time[:], time.units), element by element
num2date(xtime) ==
    [i \in DOMAIN xtime |->
        [year   |-> EPOCH.year,
         month  |-> EPOCH.month,
         day    |-> EPOCH.day + (xtime[i] \div 86400),
         hour   |-> (xtime[i] \div 3600) % 24,
         minute |-> (xtime[i] \div 60) % 60,
         second |-> xtime[i] % 60]]

\* a format without the minutes, '%Y%m%d_%H'
strftime_alt(d) ==
    Pad4(d.year) \o Pad2(d.month) \o Pad2(d.day) \o <<"_">> \o Pad2(d.hour)
\* TIME_FORMAT = '%Y%m%d_%H_%M': the seconds are not printed
strftime(d) ==
    Pad4(d.year) \o Pad2(d.month) \o Pad2(d.day)
        \o <<"_">> \o Pad2(d.hour) \o <<"_">> \o Pad2(d.minute)

os_path_join(a, b) ==
    IF b # <<>> /\ b[1] = "/" THEN b
    ELSE IF a = <<>> \/ a[Len(a)] = "/" THEN a \o b
    ELSE a \o <<"/">> \o b

\* os.path.join(args.outputdir, f'{args.prefix}_{time[0].strftime(TIME_FORMAT)}.nc')
OutputPath(a, t) ==
    os_path_join(a.outputdir, a.prefix \o <<"_">> \o strftime(t[1]) \o <<".", "n", "c">>)

\* the directory a path's file lives in
Dirname(path) ==
    LET seps == {k \in DOMAIN path : path[k] = "/"}
    IN  IF seps = {} THEN <<>> ELSE SubSeq(path, 1, SetMax(seps) - 1)

\* os.makedirs creates the directory and every missing ancestor
Ancestors(dir) ==
    { SubSeq(dir, 1, k) : k \in {j \in DOMAIN dir : j = Len(dir) \/ dir[j + 1] = "/"} }

\* ------------------------------------------------------------- the state
Procs == {1, 2}

VARIABLES
    args,       \* per invocation: [inputfile, outputdir, prefix]
    isfile,     \* per invocation: os.path.isfile(args.inputfile)
    infile,     \* per invocation: the snapshot stored in the input file
    faulty,     \* per invocation: the diagnostics library may raise errors of
                \* its own (any kind), besides those for absent variables
    ds,         \* per invocation: the in-memory (diskless) copy of the snapshot
    time,       \* per invocation: num2date of the snapshot's XTIME
    pressures,  \* per invocation: the shape of the pressure field
    idx,        \* per invocation: position of the loop in the variables table
    v,          \* per invocation: the OrderedDict of extracted fields
    warned,     \* per invocation: names logged by logging.warning
    out,        \* per invocation: the xr.Dataset (built, then cropped)
    pc,         \* per invocation: the next statement of __main__
    err,        \* per invocation: the exception that ended the run
    raised,     \* per invocation: the kinds of exception raised so far
    hist,       \* per invocation: the stages entered so far, in order
    fs,         \* the files written: path |-> content
    dirs        \* the directories that exist

vars == <<args, isfile, infile, faulty, ds, time, pressures, idx, v, warned,
          out, pc, err, raised, hist, fs, dirs>>

EmptySnapshot ==
    [XLONG |-> <<>>, XLAT |-> <<>>, XTIME |-> <<>>, vars |-> {}, attrs |-> "none"]

NoDataset ==
    [data_vars |-> <<>>, lat |-> <<>>, lon |-> <<>>, lev |-> <<>>, attrs |-> "none"]

\* a file opened with mode='w' and not yet written out
Truncated == [NoDataset EXCEPT !.attrs = "truncated"]

Snapshot(lon, lat, xtime, present, attrs) ==
    [XLONG |-> lon, XLAT |-> lat, XTIME |-> xtime, vars |-> present, attrs |-> attrs]

\* an uncaught exception ends the run
Abort(p, kind) ==
    /\ pc' = [pc EXCEPT ![p] = "aborted"]
    /\ err' = [err EXCEPT ![p] = kind]

Raise(p, kind) ==
    raised' = [raised EXCEPT ![p] = @ \cup {kind}]

Enter(p, stage) ==
    hist' = [hist EXCEPT ![p] = Append(@, stage)]

\* ------------------------------------------------------------ the actions
\* assert os.path.isfile(args.inputfile); ds = Dataset(inputfile, 'a', diskless=True, persist=False)
Load(p) ==
    /\ pc[p] = "load"
    /\ Enter(p, "load")
    /\ IF isfile[p]
       THEN /\ ds' = [ds EXCEPT ![p] = infile[p]]
            /\ pc' = [pc EXCEPT ![p] = "normalize"]
            /\ UNCHANGED <<err, raised>>
       ELSE /\ Abort(p, "AssertionError")
            /\ Raise(p, "AssertionError")
            /\ ds' = ds
    /\ UNCHANGED <<args, isfile, infile, faulty, time, pressures, idx, v, warned, out, fs, dirs>>

\* ds = convert_longitudes_to_0_360(ds)
Normalize(p) ==
    /\ pc[p] = "normalize"
    /\ Enter(p, "normalize")
    /\ ds' = [ds EXCEPT ![p].XLONG = convert_longitudes_to_0_360(@)]
    /\ pc' = [pc EXCEPT ![p] = "checktime"]
    /\ UNCHANGED <<args, isfile, infile, faulty, time, pressures, idx, v, warned, out, err, raised, fs, dirs>>

\* an assertion that only refuses an empty time axis
SingleTimeAlt(t) == Len(t) >= 1
\* the condition of `assert len(time) == 1`
SingleTime(t) == Len(t) = 1

\* time = num2date(time[:], time.units); assert len(time) == 1
CheckTime(p) ==
    /\ pc[p] = "checktime"
    /\ Enter(p, "checktime")
    /\ time' = [time EXCEPT ![p] = num2date(ds[p].XTIME)]
    /\ IF SingleTime(num2date(ds[p].XTIME))
       THEN /\ pc' = [pc EXCEPT ![p] = "pressure"]
            /\ UNCHANGED <<err, raised>>
       ELSE /\ Abort(p, "AssertionError")
            /\ Raise(p, "AssertionError")
    /\ UNCHANGED <<args, isfile, infile, faulty, ds, pressures, idx, v, warned, out, fs, dirs>>

\* What a call of the diagnostics library can do: raise one of the two
\* kinds it uses for an absent variable; on a faulty run, succeed or raise
\* anything; otherwise succeed.
Outcomes(p, fn) ==
    IF ~ (Requires(fn) \subseteq ds[p].vars) THEN {"KeyError", "ValueError"}
    ELSE IF faulty[p] THEN {"ok", "KeyError", "ValueError", "Other"}
    ELSE {"ok"}

\* pressures = calculate_pressure(ds); v = OrderedDict()
\* (the call is outside the loop's try block: any exception ends the run)
Pressure(p) ==
    /\ pc[p] = "pressure"
    /\ Enter(p, "pressure")
    /\ \E o \in Outcomes(p, "calculate_pressure") :
          IF o = "ok"
          THEN /\ pressures' = [pressures EXCEPT ![p] = <<NZ, Len(ds[p].XLAT), Len(ds[p].XLONG)>>]
               /\ idx' = [idx EXCEPT ![p] = 1]
               /\ v' = [v EXCEPT ![p] = <<>>]
               /\ pc' = [pc EXCEPT ![p] = "extract"]
               /\ UNCHANGED <<err, raised>>
          ELSE /\ Abort(p, o)
               /\ Raise(p, o)
               /\ UNCHANGED <<pressures, idx, v>>
    /\ UNCHANGED <<args, isfile, infile, faulty, ds, time, warned, out, fs, dirs>>

\* values = fn(ds), then extract_at_levels for a level-dependent field
FieldValues(var, snapshot, pressure) ==
    LET raw == ResultShape(var.fn, NZ, Len(snapshot.XLAT), Len(snapshot.XLONG))
    IN  IF var.do_extract_at_levels
        THEN extract_at_levels(raw, pressure, PRESSURE_LEVELS)
        ELSE raw

\* a loop that steps over every other row of the table
NextAlt(p) ==
    /\ idx' = [idx EXCEPT ![p] = @ + 2]
    /\ pc' = [pc EXCEPT ![p] = IF idx[p] + 2 > Len(variables) THEN "construct" ELSE "extract"]
\* the loop's advance to the next row of the table, or past its end
NextField(p) ==
    /\ idx' = [idx EXCEPT ![p] = @ + 1]
    /\ pc' = [pc EXCEPT ![p] = IF idx[p] = Len(variables) THEN "construct" ELSE "extract"]

\* one iteration of `for name, fn, do_extract_at_levels in variables`; the
\* exception may come from fn(ds) or, for a level-dependent field, from
\* extract_at_levels: both are inside the try block
ExtractField(p) ==
    /\ pc[p] = "extract"
    /\ LET var == variables[idx[p]]
       IN  /\ Enter(p, var.name)
           /\ \E o \in Outcomes(p, var.fn),
                 at \in IF var.do_extract_at_levels THEN {"fn", "extract_at_levels"} ELSE {"fn"} :
                 IF o = "ok"
                 THEN /\ v' = [v EXCEPT ![p] =
                                 Append(@, [name   |-> var.name,
                                            values |-> FieldValues(var, ds[p], pressures[p])])]
                      /\ NextField(p)
                      /\ UNCHANGED <<warned, err, raised>>
                 ELSE IF o \in Recoverable
                 THEN /\ warned' = [warned EXCEPT ![p] = @ \cup {var.name}]
                      /\ Raise(p, o)
                      /\ NextField(p)
                      /\ UNCHANGED <<v, err>>
                 ELSE /\ Abort(p, o)
                      /\ Raise(p, o)
                      /\ UNCHANGED <<v, warned, idx>>
    /\ UNCHANGED <<args, isfile, infile, faulty, ds, time, pressures, out, fs, dirs>>

\* lat_coord = ds['XLAT'][0, :, 0]; lon_coord = ds['XLONG'][0, 0, :]
\* ds = construct_xr_dataset(v, lat_coord, lon_coord, np.array(PRESSURE_LEVELS), ds.__dict__)
Construct(p) ==
    /\ pc[p] = "construct"
    /\ Enter(p, "construct")
    /\ LET lat_coord == ds[p].XLAT
           lon_coord == ds[p].XLONG
       IN  IF DimensionConflict(v[p], lat_coord, lon_coord, PRESSURE_LEVELS)
           THEN /\ Abort(p, "ValueError")
                /\ Raise(p, "ValueError")
                /\ out' = out
           ELSE /\ out' = [out EXCEPT ![p] =
                              construct_xr_dataset(v[p], lat_coord, lon_coord,
                                                   PRESSURE_LEVELS, ds[p].attrs)]
                /\ pc' = [pc EXCEPT ![p] = "crop"]
                /\ UNCHANGED <<err, raised>>
    /\ UNCHANGED <<args, isfile, infile, faulty, ds, time, pressures, idx, v, warned, fs, dirs>>

\* ds = extract_in_domain(ds, (5.0, 45.0), (100.0, 260.0))
Crop(p) ==
    /\ pc[p] = "crop"
    /\ Enter(p, "crop")
    /\ IF DomainKeyError(out[p], LATRANGE, LONRANGE)
       THEN /\ Abort(p, "KeyError")
            /\ Raise(p, "KeyError")
            /\ out' = out
       ELSE /\ out' = [out EXCEPT ![p] = extract_in_domain(@, LATRANGE, LONRANGE)]
            /\ pc' = [pc EXCEPT ![p] = "makedirs"]
            /\ UNCHANGED <<err, raised>>
    /\ UNCHANGED <<args, isfile, infile, faulty, ds, time, pressures, idx, v, warned, fs, dirs>>

\* os.makedirs(args.outputdir) without exist_ok
makedirs_alt(p) ==
    IF args[p].outputdir \in dirs
    THEN Abort(p, "FileExistsError") /\ Raise(p, "FileExistsError") /\ dirs' = dirs
    ELSE /\ dirs' = dirs \cup Ancestors(args[p].outputdir)
         /\ pc' = [pc EXCEPT ![p] = "write"]
         /\ UNCHANGED <<err, raised>>
\* os.makedirs(args.outputdir, exist_ok=True)
makedirs(p) ==
    /\ dirs' = dirs \cup Ancestors(args[p].outputdir)
    /\ pc' = [pc EXCEPT ![p] = "write"]
    /\ UNCHANGED <<err, raised>>

MakeDirs(p) ==
    /\ pc[p] = "makedirs"
    /\ Enter(p, "makedirs")
    /\ makedirs(p)
    /\ UNCHANGED <<args, isfile, infile, faulty, ds, time, pressures, idx, v, warned, out, fs>>

Store(path, content) ==
    [q \in DOMAIN fs \cup {path} |-> IF q = path THEN content ELSE fs[q]]

\* ds.to_netcdf(path, mode='w', format='NETCDF4') opens the file, replacing
\* what was there; the directory of the path must exist
OpenWrite(p) ==
    /\ pc[p] = "write"
    /\ Enter(p, "write")
    /\ LET path == OutputPath(args[p], time[p])
       IN  IF Dirname(path) \in dirs
           THEN /\ fs' = Store(path, Truncated)
                /\ pc' = [pc EXCEPT ![p] = "writing"]
                /\ UNCHANGED <<err, raised>>
           ELSE /\ Abort(p, "Other")
                /\ Raise(p, "Other")
                /\ fs' = fs
    /\ UNCHANGED <<args, isfile, infile, faulty, ds, time, pressures, idx, v, warned, out, dirs>>

\* ... and writes the dataset out and closes the file; the script then ends
FinishWrite(p) ==
    /\ pc[p] = "writing"
    /\ fs' = Store(OutputPath(args[p], time[p]), out[p])
    /\ pc' = [pc EXCEPT ![p] = "done"]
    /\ UNCHANGED <<args, isfile, infile, faulty, ds, time, pressures, idx, v, warned, out, err, raised, hist, dirs>>

\* a statement of invocation p
Run(p) ==
    \/ Load(p)
    \/ Normalize(p)
    \/ CheckTime(p)
    \/ Pressure(p)
    \/ ExtractField(p)
    \/ Construct(p)
    \/ Crop(p)
    \/ MakeDirs(p)
    \/ OpenWrite(p)
    \/ FinishWrite(p)

Next == \E p \in Procs : Run(p)

\* ------------------------------------------------------ initial states
DefaultArgs == [inputfile |-> <<"i">>, outputdir |-> <<"o">>, prefix |-> <<"a">>]

\* a grid that straddles the date line, and its latitudes
SampleLon == <<90, 170, -170, -90>>

SampleLat == <<0, 5, 25, 50>>

\* n hourly times
TimeAxis(n) == [i \in 1..n |-> (i - 1) * 3600]

AbsentSets == {a \in SUBSET SourceVars : Cardinality(a) <= MaxAbsent}

\* before the first statement of __main__
InitRun ==
    /\ ds = [p \in Procs |-> EmptySnapshot]
    /\ time = [p \in Procs |-> <<>>]
    /\ pressures = [p \in Procs |-> <<>>]
    /\ idx = [p \in Procs |-> 0]
    /\ v = [p \in Procs |-> <<>>]
    /\ warned = [p \in Procs |-> {}]
    /\ out = [p \in Procs |-> NoDataset]
    /\ err = [p \in Procs |-> "none"]
    /\ raised = [p \in Procs |-> {}]
    /\ hist = [p \in Procs |-> <<>>]
    /\ fs = <<>>

\* One invocation (the second is never launched) on any input: the file
\* missing or present, a time axis of 0..MaxTimes values, up to MaxAbsent
\* source variables absent, the library reliable or faulty, the output
\* directory already there or not.
Init ==
    /\ InitRun
    /\ args = [p \in Procs |-> DefaultArgs]
    /\ pc = [p \in Procs |-> IF p = 1 THEN "load" ELSE "off"]
    /\ \E present \in BOOLEAN, n \in 0..MaxTimes, a \in AbsentSets, f \in BOOLEAN :
          /\ isfile = [p \in Procs |-> p = 1 /\ present]
          /\ infile = [p \in Procs |->
                          IF p = 1 /\ present
                          THEN Snapshot(SampleLon, SampleLat, TimeAxis(n), SourceVars \ a, "A")
                          ELSE EmptySnapshot]
          /\ faulty = [p \in Procs |-> p = 1 /\ present /\ f]
    /\ dirs \in {{<<>>}, {<<>>, DefaultArgs.outputdir}}

Spec == Init /\ [][Next]_vars

\* One invocation on every NY x NX grid over these raw coordinate values.
\* The snapshot lacks PSFC, so that capesfc is dropped and the container
\* can be assembled.
LatValues == {5, 25, 45, 60}

LonValues == {-100, 50, 100}

InitGrid ==
    /\ InitRun
    /\ args = [p \in Procs |-> DefaultArgs]
    /\ pc = [p \in Procs |-> IF p = 1 THEN "load" ELSE "off"]
    /\ isfile = [p \in Procs |-> p = 1]
    /\ faulty = [p \in Procs |-> FALSE]
    /\ \E lon \in [1..NX -> LonValues], lat \in [1..NY -> LatValues] :
          infile = [p \in Procs |->
                       IF p = 1
                       THEN Snapshot(lon, lat, TimeAxis(1), SourceVars \ {"PSFC"}, "A")
                       ELSE EmptySnapshot]
    /\ dirs = {<<>>}

SpecGrid == InitGrid /\ [][Next]_vars

\* Two invocations, each with its own output directory, prefix, snapshot
\* time (in seconds) and snapshot content (the first's is "A", the second's
\* the same or another), in any interleaving.
OutDirs == {<<"o">>, <<"o", "/", "d">>}

Prefixes == {<<"a">>, <<"b">>, <<"d", "/", "a">>}

PairTimes == {0, 30, 60}

Attrs == {"A", "B"}

InitPair ==
    /\ InitRun
    /\ pc = [p \in Procs |-> "load"]
    /\ isfile = [p \in Procs |-> TRUE]
    /\ faulty = [p \in Procs |-> FALSE]
    /\ args \in [Procs -> [inputfile : {<<"i">>}, outputdir : OutDirs, prefix : Prefixes]]
    /\ \E t \in [Procs -> PairTimes], a \in {f \in [Procs -> Attrs] : f[1] = "A"} :
          infile = [p \in Procs |->
                       Snapshot(SampleLon, SampleLat, <<t[p]>>, SourceVars \ {"PSFC"}, a[p])]
    /\ dirs = {<<>>}

SpecPair == InitPair /\ [][Next]_vars

\* ------------------------------------------------------------ the claims
Names(seq) == {seq[i].name : i \in DOMAIN seq}

Range(seq) == {seq[i] : i \in DOMAIN seq}

IsPrefix(a, b) == Len(a) <= Len(b) /\ \A i \in DOMAIN a : a[i] = b[i]

\* the path invocation p writes (defined once its single time is known)
Path(p) == OutputPath(args[p], time[p])

\* invocation p has opened its output file
Written(p) == pc[p] \in {"writing", "done"}

\* a snapshot the script accepts: the file exists and holds one time
ValidInput(p) == isfile[p] /\ Len(infile[p].XTIME) = 1

\* C1 (as claimed): when one source variable s required by field X is the
\* only thing absent from an otherwise valid snapshot, the run never aborts
\* and the file it writes holds every declared field except X -- for every
\* field X and every s, those calculate_pressure needs included.
C1_AbsentVariableDropsOnlyItsField ==
    \A i \in DOMAIN variables : \A s \in Requires(variables[i].fn) :
        (ValidInput(1) /\ ~ faulty[1] /\ infile[1].vars = SourceVars \ {s})
            => /\ pc[1] # "aborted"
               /\ pc[1] = "done"
                    => Names(fs[Path(1)].data_vars) = DeclaredNames \ {variables[i].name}

C3_FatalErrorWritesNothing ==
    /\ "Other" \in raised[1] => pc[1] = "aborted" /\ DOMAIN fs = {}
    /\ pc[1] = "aborted" => DOMAIN fs = {} /\ ~ ENABLED Run(1)
    /\ (DOMAIN fs # {} \/ pc[1] = "write") => DeclaredNames \subseteq Range(hist[1])

\* C3's case: the fatal error struck after some fields had been collected
C3_Witness ==
    /\ pc[1] = "aborted"
    /\ err[1] = "Other"
    /\ hist[1] # <<>> /\ hist[1][Len(hist[1])] \in DeclaredNames
    /\ Len(v[1]) >= 2
    /\ DOMAIN fs = {}

\* C4: (one invocation) when the input file does not exist the run never
\* gets past the isfile assertion, and when the snapshot holds more than one
\* time it never gets past the single-time assertion; it ends with an
\* AssertionError and no file is ever written.
C4_PreconditionFailureWritesNothing ==
    /\ ~ isfile[1]
         => /\ pc[1] \in {"load", "aborted"}
            /\ DOMAIN fs = {}
    /\ (isfile[1] /\ Len(infile[1].XTIME) > 1)
         => /\ pc[1] \in {"load", "normalize", "checktime", "aborted"}
            /\ DOMAIN fs = {}
    /\ (pc[1] = "aborted" /\ (~ isfile[1] \/ Len(infile[1].XTIME) > 1))
         => err[1] = "AssertionError" /\ ~ ENABLED Run(1)

\* C4's case: a snapshot of several times was refused
C4_Witness ==
    /\ pc[1] = "aborted"
    /\ err[1] = "AssertionError"
    /\ isfile[1]
    /\ Len(infile[1].XTIME) > 1
    /\ DOMAIN fs = {}

\* C5 (as claimed): on a valid snapshot holding every source variable (and a
\* reliable library) the run is not aborted and the file it writes holds all
\* 9 declared fields, a field of 3 axes tagged (lev, lat, lon) and any other
\* (lat, lon), the level-dependent fields being the 3-D ones.
C5_CompleteInputYieldsAllFields ==
    (ValidInput(1) /\ ~ faulty[1] /\ infile[1].vars = SourceVars)
        => /\ pc[1] # "aborted"
           /\ pc[1] = "done"
                => LET d == fs[Path(1)].data_vars
                   IN  /\ Names(d) = DeclaredNames
                       /\ \A i \in DOMAIN d :
                             /\ d[i].dims = IF Len(d[i].shape) = 3
                                            THEN <<"lev", "lat", "lon">>
                                            ELSE <<"lat", "lon">>
                             /\ \A k \in DOMAIN variables :
                                   variables[k].name = d[i].name
                                     => (Len(d[i].shape) = 3) = variables[k].do_extract_at_levels

InLatWindow(d) == \A i \in DOMAIN d.lat : 5 <= d.lat[i] /\ d.lat[i] <= 45

InLonWindow(d) == \A i \in DOMAIN d.lon : 100 <= d.lon[i] /\ d.lon[i] <= 260

Monotonic(index) == is_monotonic_increasing(index) \/ is_monotonic_decreasing(index)

\* C6 (as claimed): every file written holds only latitudes in [5, 45] and
\* longitudes in [100, 260], whatever axes the cropper was given.
C6_CropWindowAnyAxis ==
    pc[1] = "done" => InLatWindow(fs[Path(1)]) /\ InLonWindow(fs[Path(1)])

\* C6 (amended): every file written holds only latitudes in [5, 45] when the
\* latitude axis given to the cropper is monotonic, and only longitudes in
\* [100, 260] when the normalised longitude axis is monotonic.
C6_CropWindowMonotonicAxis ==
    pc[1] = "done"
        => /\ Monotonic(ds[1].XLAT) => InLatWindow(fs[Path(1)])
           /\ Monotonic(ds[1].XLONG) => InLonWindow(fs[Path(1)])

\* C6's case: a file was written from monotonic axes, with points cut away
\* on both axes and points kept on both
C6_Witness ==
    /\ pc[1] = "done"
    /\ Monotonic(ds[1].XLAT) /\ Monotonic(ds[1].XLONG)
    /\ fs[Path(1)].lat # <<>> /\ Len(fs[Path(1)].lat) < Len(ds[1].XLAT)
    /\ fs[Path(1)].lon # <<>> /\ Len(fs[Path(1)].lon) < Len(ds[1].XLONG)

\* C7: after convert_longitudes_to_0_360 every stored longitude whose input
\* lay in [-180, 0) equals input + 360, every one whose input lay in [0, 180)
\* is unchanged, all lie in [0, 360), element by element, and no other
\* variable of the snapshot has changed.
C7_LongitudeNormalization ==
    "normalize" \in Range(hist[1])
        => /\ DOMAIN ds[1].XLONG = DOMAIN infile[1].XLONG
           /\ \A i \in DOMAIN infile[1].XLONG :
                 LET x == infile[1].XLONG[i]
                     y == ds[1].XLONG[i]
                 IN  /\ (-180 <= x /\ x < 0) => y = x + 360
                     /\ (0 <= x /\ x < 180) => y = x
                     /\ 0 <= y /\ y < 360
           /\ ds[1].XLAT = infile[1].XLAT
           /\ ds[1].XTIME = infile[1].XTIME
           /\ ds[1].vars = infile[1].vars
           /\ ds[1].attrs = infile[1].attrs

\* C7's case: an axis with both negative and non-negative longitudes was
\* normalised
C7_Witness ==
    /\ "normalize" \in Range(hist[1])
    /\ \E i, j \in DOMAIN infile[1].XLONG :
          infile[1].XLONG[i] < 0 /\ infile[1].XLONG[j] >= 0

\* a prefix with no path separator in it
Plain(prefix) == \A k \in DOMAIN prefix : prefix[k] # "/"

\* C8 (as claimed): two invocations that differ in prefix or in snapshot
\* time never write the same path.
C8_DistinctInputsDistinctPaths ==
    \A p, q \in Procs :
        (p # q /\ Written(p) /\ Written(q)
           /\ (args[p].prefix # args[q].prefix \/ infile[p].XTIME # infile[q].XTIME))
            => Path(p) # Path(q)

\* C8 (amended): the path is determined by (outputdir, prefix, snapshot
\* time); two invocations with the same output directory and separator-free
\* prefixes write the same path exactly when they have the same prefix and
\* the same snapshot time to the minute (the stamp has no seconds).
C8_SamePathIffSamePrefixAndMinute ==
    \A p, q \in Procs :
        (p # q /\ Written(p) /\ Written(q) /\ args[p].outputdir = args[q].outputdir)
            => /\ (args[p].prefix = args[q].prefix /\ infile[p].XTIME = infile[q].XTIME)
                    => Path(p) = Path(q)
               /\ (Plain(args[p].prefix) /\ Plain(args[q].prefix))
                    => ((Path(p) = Path(q))
                          = (/\ args[p].prefix = args[q].prefix
                             /\ infile[p].XTIME[1] \div 60 = infile[q].XTIME[1] \div 60))

\* C8's case: both invocations have the same file open for writing at once
\* (nothing excludes it), their snapshot times differing by seconds
C8_Witness ==
    /\ pc[1] = "writing" /\ pc[2] = "writing"
    /\ Path(1) = Path(2)
    /\ infile[1].XTIME # infile[2].XTIME

\* C9: os.makedirs succeeds whether or not the directory exists; the write
\* that completes replaces the file at its path by the run's dataset and
\* touches no other file; and when the other invocation has finished on the
\* same arguments and the same snapshot, what is now in the file equals what
\* that invocation wrote.
C9_RewriteIsIdempotent ==
    [][ \A p \in Procs :
          /\ (pc[p] = "makedirs" /\ pc'[p] # "makedirs")
               => /\ pc'[p] = "write"
                  /\ args[p].outputdir \in dirs'
                  /\ dirs \subseteq dirs'
          /\ (pc[p] = "writing" /\ pc'[p] = "done")
               => /\ Path(p) \in DOMAIN fs
                  /\ DOMAIN fs' = DOMAIN fs
                  /\ fs'[Path(p)] = out[p]
                  /\ \A f \in DOMAIN fs : f # Path(p) => fs'[f] = fs[f]
                  /\ \A q \in Procs :
                        (q # p /\ pc[q] = "done" /\ args[q] = args[p] /\ infile[q] = infile[p])
                            => Path(q) = Path(p) /\ fs'[Path(p)] = out[q]
      ]_vars

\* C9's case: both invocations, on the same arguments and the same snapshot,
\* are done and the file holds that dataset
C9_Witness ==
    /\ pc[1] = "done" /\ pc[2] = "done"
    /\ args[1] = args[2] /\ infile[1] = infile[2]
    /\ fs[Path(1)] = out[1]
    /\ out[1] = out[2]

StageOrder ==
    <<"load", "normalize", "checktime", "pressure",
      "absvprs", "capesfc", "hgtprs", "rhprs", "tmpprs", "ugrdprs", "vgrdprs", "vvelprs", "slp",
      "construct", "crop", "makedirs", "write">>

\* C10: the stages a run has entered are always an initial part of the one
\* fixed order (load, longitude normalisation, single-time check, pressure,
\* the 9 fields in declaration order, assembly, crop, makedirs, write), so
\* each is entered at most once and none is revisited; a run that has
\* opened its file has entered every stage exactly once, and a run that is
\* done takes no further step.
C10_StagesInFixedOrder ==
    \A p \in Procs :
        /\ IsPrefix(hist[p], StageOrder)
        /\ Written(p) => hist[p] = StageOrder
        /\ pc[p] = "done" => ~ ENABLED Run(p)

\* C10's case: a run went through every stage and wrote its file
C10_Witness ==
    /\ pc[1] = "done"
    /\ hist[1] = StageOrder
    /\ Path(1) \in DOMAIN fs

====
